---- MODULE Spec2Model ----
(***************************************************************************)
(* A model of exander77/go-imap: the connection transport (Conn: buffered  *)
(* reader and writer, diagnostic tap, flush aggregator, in-place Upgrade    *)
(* behind the waits gate) and the LIST/LSUB response (List.WriteTo with    *)
(* the special-use filter).                                                 *)
(*                                                                          *)
(* The library types the source composes are modelled by what they do:      *)
(* bufio.Writer (buffer, sticky error, Reset), bufio.Reader (buffer, fill,  *)
(* deferred error, Reset), io.MultiWriter (writers in order, first error    *)
(* wins, the count returned is the failing writer's), io.TeeReader (read,   *)
(* then copy to the sink, the sink's error is the read's error).            *)
(***************************************************************************)
EXTENDS Naturals, Sequences, FiniteSets, TLC

(***************************************************************************)
(* Bounds of the model.                                                     *)
(***************************************************************************)
\* the size of bufio's buffers (4096 in the library), scaled down
BufSize == 1
\* the longest byte slice one Write call is given
MaxWriteLen == 2
\* the number of outbound bytes offered to Write over a run
MaxBytes == 3
\* the same, in the runs with concurrent Upgrade calls
ConcBytes == 1
\* the number of inbound bytes read from any one stream over a run
MaxIn == 1

\* the number of Upgrade calls that get past their first flush over a run
MaxUpgrades == 1
\* the number of mailbox records sent on List.Mailboxes over a run
MaxRecords == 2
\* the number of responses offered to List.Handle over a run
MaxOffers == 3

\* the streams: the one NewConn is given and one per upgrader result
Streams == 1..(MaxUpgrades + 2)
\* the gate channels: one per Upgrade call
GateIds == 1..(MaxUpgrades + 1)

VARIABLES
  c,        \* the Conn, with the streams and sinks it is wired to
  d,        \* a second Conn given the same calls with no diagnostic sink
  gates,    \* the channels made by Upgrade: "open", "closed" or "panic"
  upc,      \* where each Upgrade call stands
  ulocal,   \* each Upgrade call's locals: its gate, upgrader result, return
  wpc,      \* where each Wait call stands
  wch,      \* the channel a Wait call receives on
  last,     \* the last Conn call that returned, and what it returned
  lst       \* the List response: channel, producer, WriteTo loop

vars == <<c, d, gates, upc, ulocal, wpc, wch, last, lst>>

(***************************************************************************)
(* Sequences.                                                               *)
(***************************************************************************)
Range(s) == {s[i] : i \in 1..Len(s)}

Min(a, b) == IF a < b THEN a ELSE b

Take(s, n) == SubSeq(s, 1, Min(n, Len(s)))

Drop(s, n) == SubSeq(s, Min(n, Len(s)) + 1, Len(s))

(***************************************************************************)
(* The diagnostic sink given to SetDebug: nil, a plain io.Writer, a         *)
(* debugWriter or a debugWithFields, the last two with an optional local    *)
(* and an optional remote side.                                             *)
(***************************************************************************)
NoDebug == [kind |-> "nil", local |-> FALSE, remote |-> FALSE]

PlainDebug == [kind |-> "plain", local |-> TRUE, remote |-> TRUE]

NewDebugWriter(local, remote) ==
  [kind |-> "debugWriter", local |-> local, remote |-> remote]

NewDebugWithFields(local, remote) ==
  [kind |-> "debugWithFields", local |-> local, remote |-> remote]

DebugValues ==
  {NoDebug, PlainDebug}
    \cup {NewDebugWriter(l, r) : l, r \in BOOLEAN}
    \cup {NewDebugWithFields(l, r) : l, r \in BOOLEAN}

\* debugWithFields.withField: sets the field on each side that is not nil
withField(debug, tags, key) ==
  [local  |-> IF debug.local THEN tags.local \cup {key} ELSE tags.local,
   remote |-> IF debug.remote THEN tags.remote \cup {key} ELSE tags.remote]

(***************************************************************************)
(* What the environment decides during one call: how many bytes the stream  *)
(* accepts before its Write fails (wq), whether the diagnostic sink's Write *)
(* succeeds (sk), whether the stream's own Flush succeeds (fk), how many    *)
(* bytes a Read of the stream returns (rn) and whether it fails instead     *)
(* (rk).                                                                    *)
(***************************************************************************)
WriteAll == BufSize + MaxWriteLen

GoodEnv == [wq |-> WriteAll, sk |-> TRUE, fk |-> TRUE, rn |-> 1, rk |-> TRUE]

\* what can vary during a Write or a Flush: the stream's Write, and the sink's
\* when the writer is tapped, and the stream's Flush when the aggregator is used
WriteEnvs(cc, quotas) ==
  {[GoodEnv EXCEPT !.wq = q, !.sk = k] :
     q \in quotas, k \in IF cc.bw.tap THEN BOOLEAN ELSE {TRUE}}

FlushEnvs(cc, quotas) ==
  {[e EXCEPT !.fk = k] :
     e \in WriteEnvs(cc, quotas), k \in IF cc.W # <<>> THEN BOOLEAN ELSE {TRUE}}

\* what can vary during a read: the stream's Read, and the sink's Write when
\* the reader is tapped
ReadEnvs(cc) ==
  {[GoodEnv EXCEPT !.rn = n, !.rk = k, !.sk = t] :
     n \in 1..BufSize, k \in BOOLEAN, t \in IF cc.br.tap THEN BOOLEAN ELSE {TRUE}}

\* the stream's Write fails at once, after one byte, or not at all
Quotas == {0, 1, WriteAll}

\* the stream's Write fails at once or not at all
CoarseQuotas == {0, WriteAll}

Ret(cc, n, err) == [c |-> cc, n |-> n, err |-> err]

(***************************************************************************)
(* net.Conn.Write: the stream takes the first env.wq bytes and fails if     *)
(* that is not all of them.                                                 *)
(***************************************************************************)
StreamWrite(cc, s, p, env) ==
  LET n == Min(env.wq, Len(p))
  IN  Ret([cc EXCEPT !.wire[s] = @ \o Take(p, n)], n,
          IF n < Len(p) THEN "EIO" ELSE "nil")

(***************************************************************************)
(* The writer bufio writes to: the stream itself, or                        *)
(* io.MultiWriter(c.Conn, localDebug): the stream first, then the sink; the *)
(* first error ends the call and the count is the failing writer's.         *)
(***************************************************************************)
SinkWrite(cc, s, tap, p, env) ==
  LET r == StreamWrite(cc, s, p, env)
  IN  IF ~tap \/ r.err # "nil" THEN r
      ELSE IF env.sk
           THEN Ret([r.c EXCEPT !.lsink = @ \o p], Len(p), "nil")
           ELSE Ret(r.c, 0, "ESink")

(***************************************************************************)
(* bufio.Writer.Flush: a sticky error is returned as is; otherwise the      *)
(* buffer is written, what was not written stays, and an error sticks.      *)
(***************************************************************************)
BufFlush(cc, env) ==
  IF cc.bw.err # "nil" THEN Ret(cc, 0, cc.bw.err)
  ELSE IF cc.bw.buf = <<>> THEN Ret(cc, 0, "nil")
  ELSE LET r == SinkWrite(cc, cc.bw.sink, cc.bw.tap, cc.bw.buf, env)
           e == IF r.n < Len(cc.bw.buf) /\ r.err = "nil" THEN "EShort" ELSE r.err
       IN  Ret([r.c EXCEPT !.bw.buf = Drop(cc.bw.buf, r.n), !.bw.err = e], r.n, e)

(***************************************************************************)
(* bufio.Writer.Write: while p does not fit and no error sticks, either     *)
(* write p straight through (empty buffer) or fill the buffer and flush;    *)
(* then buffer what is left.                                                *)
(***************************************************************************)
RECURSIVE BufWrite(_, _, _, _)
BufWrite(cc, p, nn, env) ==
  IF Len(p) > BufSize - Len(cc.bw.buf) /\ cc.bw.err = "nil"
  THEN IF cc.bw.buf = <<>>
       THEN LET r == SinkWrite(cc, cc.bw.sink, cc.bw.tap, p, env)
            IN  BufWrite([r.c EXCEPT !.bw.err = r.err], Drop(p, r.n), nn + r.n, env)
       ELSE LET n  == BufSize - Len(cc.bw.buf)
                c1 == [cc EXCEPT !.bw.buf = @ \o Take(p, n)]
                r  == BufFlush(c1, env)
            IN  BufWrite(r.c, Drop(p, n), nn + n, env)
  ELSE IF cc.bw.err # "nil" THEN Ret(cc, nn, cc.bw.err)
  ELSE Ret([cc EXCEPT !.bw.buf = @ \o p], nn + Len(p), "nil")

(***************************************************************************)
(* One flusher of the aggregator: 0 is the buffered writer, s > 0 is the    *)
(* Flush method of stream s.                                                *)
(***************************************************************************)
FlushOne(cc, f, env) ==
  IF f = 0
  THEN LET r == BufFlush(cc, env)
       IN  Ret([r.c EXCEPT !.flog = Append(@, <<f, r.err>>)], 0, r.err)
  ELSE LET e == IF env.fk THEN "nil" ELSE "EFlush"
       IN  Ret([cc EXCEPT !.flog = Append(@, <<f, e>>)], 0, e)

\* a flusher list that goes on after a failure and reports the last result
RECURSIVE multiFlusherFlushAll(_, _, _)
multiFlusherFlushAll(cc, flushers, env) ==
  IF flushers = <<>> THEN Ret(cc, 0, "nil")
  ELSE LET r == FlushOne(cc, Head(flushers), env)
       IN  IF Tail(flushers) = <<>> THEN r
           ELSE multiFlusherFlushAll(r.c, Tail(flushers), env)

(***************************************************************************)
(* multiFlusher.Flush: each flusher in order, the first error returned.     *)
(***************************************************************************)
RECURSIVE multiFlusherFlush(_, _, _)
multiFlusherFlush(cc, flushers, env) ==
  IF flushers = <<>> THEN Ret(cc, 0, "nil")
  ELSE LET r == FlushOne(cc, Head(flushers), env)
       IN  IF r.err # "nil" THEN r
           ELSE multiFlusherFlush(r.c, Tail(flushers), env)

newMultiFlusher(bw, f) == <<bw, f>>

(***************************************************************************)
(* bufio.Reader over the stream or over io.TeeReader(c.Conn, remoteDebug).  *)
(* fill reads once: env.rn bytes, or an error; the tee copies what was read *)
(* to the sink and returns the sink's count and error when that fails.      *)
(***************************************************************************)
InByte(s, i) == <<s, i>>

BufFill(cc, env) ==
  LET s == cc.br.src
      n == IF env.rk THEN env.rn ELSE 0
      p == [i \in 1..n |-> InByte(s, cc.rpos[s] + i)]
      c1 == [cc EXCEPT !.rpos[s] = @ + n]
  IN  IF ~env.rk THEN [c1 EXCEPT !.br.err = "ERead"]
      ELSE IF ~cc.br.tap THEN [c1 EXCEPT !.br.buf = @ \o p]
      ELSE IF env.sk THEN [c1 EXCEPT !.br.buf = @ \o p, !.rsink = @ \o p]
      \* the tee returns the sink's count (0) with the sink's error
      ELSE [c1 EXCEPT !.br.err = "ESink"]

\* bufio.Reader.ReadByte: a buffered byte, or the pending error, or fill
BufReadByte(cc, env) ==
  LET c1 == IF cc.br.buf = <<>> /\ cc.br.err = "nil" THEN BufFill(cc, env) ELSE cc
  IN  IF c1.br.buf # <<>>
      THEN Ret([c1 EXCEPT !.br.buf = Tail(@), !.got = Append(@, Head(c1.br.buf))],
               1, "nil")
      ELSE Ret([c1 EXCEPT !.br.err = "nil"], 0, c1.br.err)

(***************************************************************************)
(* Conn.init: choose the reader and writer (tapped when a sink is set),     *)
(* create or Reset the buffered reader and writer, and wrap the writer with *)
(* the flush aggregator when the stream has a Flush of its own.             *)
(***************************************************************************)
LocalDebug(cc) == cc.debug.kind # "nil" /\ cc.debug.local

RemoteDebug(cc) == cc.debug.kind # "nil" /\ cc.debug.remote

ConnInit(cc) ==
  LET c1 == IF cc.debug.kind = "debugWithFields"
            THEN [cc EXCEPT !.tags = withField(cc.debug, withField(cc.debug, @, "loc"), "rem")]
            ELSE cc
      \* bufio.NewReader(r), or c.br.Reset(r): either way an empty buffer on r
      c2 == [c1 EXCEPT !.br = [isnil |-> FALSE, src |-> cc.Conn,
                                tap |-> RemoteDebug(cc), buf |-> <<>>, err |-> "nil"]]
      \* bufio.NewWriter(w), or c.bw.Reset(w): unflushed data and error dropped
      c3 == [c2 EXCEPT !.bw = [isnil |-> FALSE, sink |-> cc.Conn,
                                tap |-> LocalDebug(cc), buf |-> <<>>, err |-> "nil"],
                       !.W = IF cc.bw.isnil THEN <<>> ELSE @,
                       !.acc = <<>>, !.base = Len(cc.wire[cc.Conn])]
  IN  IF cc.hasF[cc.Conn]
      THEN [c3 EXCEPT !.W = newMultiFlusher(0, cc.Conn)]
      ELSE c3

(***************************************************************************)
(* NewConn: the Conn around stream 1, before and after init.                *)
(***************************************************************************)
RawConn(hasF) ==
  [Conn |-> 1, ns |-> 1, hasF |-> hasF,
   wire |-> [s \in Streams |-> <<>>], rpos |-> [s \in Streams |-> 0],
   debug |-> NoDebug, tags |-> [local |-> {}, remote |-> {}],
   lsink |-> <<>>, rsink |-> <<>>,
   br |-> [isnil |-> TRUE, src |-> 0, tap |-> FALSE, buf |-> <<>>, err |-> "nil"],
   bw |-> [isnil |-> TRUE, sink |-> 0, tap |-> FALSE, buf |-> <<>>, err |-> "nil"],
   W |-> <<>>, waits |-> 0,
   acc |-> <<>>, base |-> 0, flog |-> <<>>, got |-> <<>>, wn |-> 0,
   wfail |-> FALSE]

NewConn(hasF) == ConnInit(RawConn(hasF))

(***************************************************************************)
(* Conn.Write, Conn.Flush, Conn.SetDebug and the embedded Reader's read.    *)
(***************************************************************************)
ConnWrite(cc, p, env) ==
  LET r == BufWrite(cc, p, 0, env)
  IN  Ret([r.c EXCEPT !.acc = @ \o p, !.wfail = @ \/ r.err # "nil"], r.n, r.err)

\* Writer.Flush: Flush of whatever the Writer's io.Writer is
WriterFlush(cc, env) ==
  IF cc.W = <<>> THEN FlushOne(cc, 0, env)
  ELSE multiFlusherFlush(cc, cc.W, env)

\* a Flush that swallows the error
ConnFlushNoError(cc, env) ==
  Ret(WriterFlush([cc EXCEPT !.flog = <<>>], env).c, 0, "nil")

ConnFlush(cc, env) == WriterFlush([cc EXCEPT !.flog = <<>>], env)

ConnRead(cc, env) == BufReadByte(cc, env)

SetDebug(cc, w) == ConnInit([cc EXCEPT !.debug = w])

(***************************************************************************)
(* Conn.Upgrade, one statement at a time.  The upgrader is a call to        *)
(* outside code: it is given c.Conn when called and answers later with a    *)
(* new stream or an error.                                                  *)
(***************************************************************************)
ULocal0 ==
  [made |-> 0, gate |-> 0, arg |-> 0, up |-> 0, err |-> "nil", ret |-> "none",
   \* what the call found on entry and how many bytes had been written on return
   pre |-> [Conn |-> 0, sink |-> 0, src |-> 0, wn |-> 0], retwn |-> 0]

\* the Upgrade calls that have made a gate or are about to
Started == Cardinality({g \in GateIds : gates[g] # "none"})
             + Cardinality({u \in DOMAIN upc : upc[u] = "make"})

OpenGates == {g \in GateIds : gates[g] = "open"}

\* make(chan struct{}): the next channel not made yet
NewGate == CHOOSE g \in GateIds : gates[g] = "none" /\ \A h \in GateIds : h < g => gates[h] # "none"

\* an Upgrade whose close is not deferred: an early return skips it
UpgradeAfterFailureNoClose == "done"

\* where Upgrade goes when the upgrader failed: return err runs the deferred close
UpgradeAfterFailure == "close"

\* an Upgrade that swallows the upgrader's error
UpgradeFailureResultNil(err) == "nil"

\* return err: what Upgrade returns when the upgrader failed
UpgradeFailureResult(err) == err

\* where Upgrade goes when the upgrader has answered
UpgradeAfterUpgrader(err) == IF err # "nil" THEN UpgradeAfterFailure ELSE "swap"

\* the last Conn call that returned: what it was, the error it returned, and
\* the error the same call returned on the Conn with no diagnostic sink
TwinCall(op, r, rd) == [op |-> op, err |-> r.err, terr |-> rd.err]

Call(op, r) == TwinCall(op, r, r)

NoCall == [op |-> "none", err |-> "nil", terr |-> "nil"]

\* an Upgrade that goes on after a failed flush
UpgradeAfterFlushGoingOn(err) == "make"

\* where Upgrade goes after its flush: return err, or on to the gate
UpgradeAfterFlush(err) == IF err # "nil" THEN "done" ELSE "make"

\* if err := c.Flush(); err != nil { return err }
UpgradeFlushUpTo(u, max) ==
  /\ upc[u] = "idle"
  /\ Started < max
  /\ \E env \in FlushEnvs(c, CoarseQuotas) :
       LET r == ConnFlush(c, env)
       IN  /\ c' = r.c
           /\ last' = Call("Flush", r)
           /\ upc' = [upc EXCEPT ![u] = UpgradeAfterFlush(r.err)]
           /\ ulocal' = [ulocal EXCEPT ![u].ret = IF r.err # "nil" THEN r.err ELSE @,
                                       ![u].retwn = c.wn,
                                       ![u].pre = [Conn |-> c.Conn, sink |-> c.bw.sink,
                                                   src |-> c.br.src, wn |-> c.wn]]
  /\ UNCHANGED <<d, gates, wpc, wch, lst>>

UpgradeFlush(u) == UpgradeFlushUpTo(u, MaxUpgrades)

\* c.waits = make(chan struct{})
UpgradeMakeGate(u) ==
  /\ upc[u] = "make"
  /\ gates' = [gates EXCEPT ![NewGate] = "open"]
  /\ c' = [c EXCEPT !.waits = NewGate]
  /\ ulocal' = [ulocal EXCEPT ![u].made = NewGate]
  /\ upc' = [upc EXCEPT ![u] = "defer"]
  /\ UNCHANGED <<d, wpc, wch, last, lst>>

\* defer close(c.waits): the operand is the field's value at this statement
UpgradeDeferred(cc, made) == cc.waits

UpgradeDefer(u) ==
  /\ upc[u] = "defer"
  /\ ulocal' = [ulocal EXCEPT ![u].gate = UpgradeDeferred(c, ulocal[u].made)]
  /\ upc' = [upc EXCEPT ![u] = "call"]
  /\ UNCHANGED <<c, d, gates, wpc, wch, last, lst>>

\* upgrader(c.Conn): the call
UpgradeCall(u) ==
  /\ upc[u] = "call"
  /\ ulocal' = [ulocal EXCEPT ![u].arg = c.Conn]
  /\ upc' = [upc EXCEPT ![u] = "inflight"]
  /\ UNCHANGED <<c, d, gates, wpc, wch, last, lst>>

\* upgraded, err := upgrader(c.Conn); if err != nil { return err }
UpgraderReturn(u) ==
  /\ upc[u] = "inflight"
  /\ \E ok \in BOOLEAN, hf \in BOOLEAN :
       LET err == IF ok THEN "nil" ELSE "EUpgrade"
       IN  /\ ok \/ ~hf
           /\ c' = IF ok THEN [c EXCEPT !.ns = @ + 1, !.hasF[c.ns + 1] = hf] ELSE c
           /\ ulocal' = [ulocal EXCEPT ![u].up = IF ok THEN c.ns + 1 ELSE 0,
                                       ![u].err = err,
                                       ![u].ret = IF ok THEN @ ELSE UpgradeFailureResult(err)]
           /\ upc' = [upc EXCEPT ![u] = UpgradeAfterUpgrader(err)]
  /\ UNCHANGED <<d, gates, wpc, wch, last, lst>>

\* c.Conn = upgraded
UpgradeSwap(u) ==
  /\ upc[u] = "swap"
  /\ c' = [c EXCEPT !.Conn = ulocal[u].up]
  /\ upc' = [upc EXCEPT ![u] = "init"]
  /\ UNCHANGED <<d, gates, ulocal, wpc, wch, last, lst>>

\* c.init(); return nil
UpgradeInit(u) ==
  /\ upc[u] = "init"
  /\ c' = ConnInit(c)
  /\ ulocal' = [ulocal EXCEPT ![u].ret = "nil"]
  /\ upc' = [upc EXCEPT ![u] = "close"]
  /\ UNCHANGED <<d, gates, wpc, wch, last, lst>>

\* the deferred close(c.waits), on the channel the defer statement evaluated
UpgradeClose(u) ==
  /\ upc[u] = "close"
  /\ gates' = [gates EXCEPT ![ulocal[u].gate] = IF @ = "open" THEN "closed" ELSE "panic"]
  /\ upc' = [upc EXCEPT ![u] = "done"]
  /\ ulocal' = [ulocal EXCEPT ![u].retwn = c.wn]
  /\ UNCHANGED <<c, d, wpc, wch, last, lst>>

\* Upgrade has returned; the goroutine may call it again
UpgradeReturn(u) ==
  /\ upc[u] = "done"
  /\ upc' = [upc EXCEPT ![u] = "idle"]
  /\ ulocal' = [ulocal EXCEPT ![u] = ULocal0]
  /\ UNCHANGED <<c, d, gates, wpc, wch, last, lst>>

(***************************************************************************)
(* Conn.Wait: if c.waits != nil { <-c.waits }, the field read twice.        *)
(***************************************************************************)
\* the gates of the Upgrade calls that have made one and not yet returned
InFlightGates ==
  {g \in GateIds : \E u \in DOMAIN upc :
     ulocal[u].made = g /\ upc[u] \in {"defer", "call", "inflight", "swap", "init", "close"}}

\* the channel a Wait loaded, and the gates in flight when it was called
Wch0 == [ch |-> 0, seen |-> {}]

WaitCheck(w) ==
  /\ wpc[w] = "idle"
  /\ wpc' = [wpc EXCEPT ![w] = IF c.waits # 0 THEN "load" ELSE "done"]
  /\ wch' = [wch EXCEPT ![w].seen = InFlightGates]
  /\ UNCHANGED <<c, d, gates, upc, ulocal, last, lst>>

WaitLoad(w) ==
  /\ wpc[w] = "load"
  /\ wch' = [wch EXCEPT ![w].ch = c.waits]
  /\ wpc' = [wpc EXCEPT ![w] = "recv"]
  /\ UNCHANGED <<c, d, gates, upc, ulocal, last, lst>>

\* a receive on a channel returns once the channel is closed
WaitRecv(w) ==
  /\ wpc[w] = "recv"
  /\ gates[wch[w].ch] \in {"closed", "panic"}
  /\ wpc' = [wpc EXCEPT ![w] = "done"]
  /\ UNCHANGED <<c, d, gates, upc, ulocal, wch, last, lst>>

(***************************************************************************)
(* The calls of the other goroutines: Write, Flush, a read through the      *)
(* embedded Reader, SetDebug.  None of them looks at c.waits.               *)
(***************************************************************************)
NextBytes(cc, len) == [i \in 1..len |-> cc.wn + i]

WriteOp(maxlen, maxbytes, quotas) ==
  /\ \E len \in 1..maxlen, env \in WriteEnvs(c, quotas) :
       /\ c.wn + len <= maxbytes
       /\ LET r == ConnWrite([c EXCEPT !.wn = @ + len], NextBytes(c, len), env)
          IN  c' = [r.c EXCEPT !.flog = <<>>] /\ last' = Call("Write", r)
  /\ UNCHANGED <<d, gates, upc, ulocal, wpc, wch, lst>>

Write == WriteOp(1, ConcBytes, CoarseQuotas)

Flush ==
  /\ \E env \in FlushEnvs(c, CoarseQuotas) :
       LET r == ConnFlush(c, env)
       IN  c' = r.c /\ last' = Call("Flush", r)
  /\ UNCHANGED <<d, gates, upc, ulocal, wpc, wch, lst>>

\* a read that has to fill the buffer takes env.rn more bytes from the stream
CanRead(cc, env) ==
  cc.br.buf # <<>> \/ cc.br.err # "nil" \/ cc.rpos[cc.br.src] + env.rn <= MaxIn

CallSetDebug ==
  /\ \E w \in {NoDebug, PlainDebug} :
       /\ w # c.debug
       /\ c' = [SetDebug(c, w) EXCEPT !.flog = <<>>]
       /\ last' = Call("SetDebug", Ret(c, 0, "nil"))
  /\ UNCHANGED <<d, gates, upc, ulocal, wpc, wch, lst>>

\* a mailbox record, and the List response before any record is sent
MailboxInfo(name, attrs) == [name |-> name, delim |-> "/", attrs |-> attrs]

Lst0 ==
  [subscribed |-> FALSE, specialUse |-> FALSE, cap |-> 0,
   ch |-> <<>>, closed |-> FALSE, nsent |-> 0,
   pc |-> "range", mbox |-> MailboxInfo(0, <<>>),
   out |-> <<>>, rcv |-> <<>>, err |-> "nil",
   hpc |-> "idle", hmbox |-> MailboxInfo(0, <<>>), hret |-> "none",
   hwaited |-> FALSE, offered |-> <<>>, snt |-> <<>>]

(***************************************************************************)
(* The transport under concurrent callers.                                  *)
(***************************************************************************)
InitWith(upgraders, waiters) ==
  /\ \E hf \in BOOLEAN : c = NewConn([s \in Streams |-> s = 1 /\ hf])
  /\ d = c
  /\ gates = [g \in GateIds |-> "none"]
  /\ upc = [u \in upgraders |-> "idle"]
  /\ ulocal = [u \in upgraders |-> ULocal0]
  /\ wpc = [w \in waiters |-> "idle"]
  /\ wch = [w \in waiters |-> Wch0]
  /\ last = NoCall
  /\ lst = Lst0

Init == InitWith({"u1"}, {"w1"})

Next ==
  \/ \E u \in DOMAIN upc : UpgradeFlush(u)
  \/ \E u \in DOMAIN upc : UpgradeMakeGate(u)
  \/ \E u \in DOMAIN upc : UpgradeDefer(u)
  \/ \E u \in DOMAIN upc : UpgradeCall(u)
  \/ \E u \in DOMAIN upc : UpgraderReturn(u)
  \/ \E u \in DOMAIN upc : UpgradeSwap(u)
  \/ \E u \in DOMAIN upc : UpgradeInit(u)
  \/ \E u \in DOMAIN upc : UpgradeClose(u)
  \/ \E u \in DOMAIN upc : UpgradeReturn(u)
  \/ \E w \in DOMAIN wpc : WaitCheck(w)
  \/ \E w \in DOMAIN wpc : WaitLoad(w)
  \/ \E w \in DOMAIN wpc : WaitRecv(w)
  \/ Write
  \/ Flush
  \/ CallSetDebug

Spec == Init /\ [][Next]_vars

(***************************************************************************)
(* Properties of the transport under concurrent callers.                    *)
(***************************************************************************)
\* what the buffered writer has put on its stream since it was bound to it
Delivered(cc) ==
  SubSeq(cc.wire[cc.bw.sink], cc.base + 1, Len(cc.wire[cc.bw.sink]))

\* an Upgrade call whose upgrader failed and that has returned
FailedUpgrade(u) == upc[u] = "done" /\ ulocal[u].err # "nil"

\* C1: when the upgrader fails, Upgrade returns the upgrader's error, the
\* stream and the streams the buffered reader and writer are bound to are
\* those found on entry, and what a later Write and successful Flush send
\* arrives on that stream.
C1_UpgraderErrorKeepsStream ==
  \A u \in DOMAIN upc :
    FailedUpgrade(u) =>
      /\ ulocal[u].ret = ulocal[u].err
      /\ c.Conn = ulocal[u].pre.Conn
      /\ c.bw.sink = ulocal[u].pre.sink /\ c.bw.sink = c.Conn
      /\ c.br.src = ulocal[u].pre.src /\ c.br.src = c.Conn
      /\ (last.op = "Flush" /\ last.err = "nil" =>
            /\ Delivered(c) = c.acc
            /\ \A i \in 1..Len(c.acc) : c.acc[i] \in Range(c.wire[ulocal[u].pre.Conn]))

\* a byte written after the failed Upgrade returned has reached the stream
C1_Witness ==
  \E u \in DOMAIN upc :
    /\ FailedUpgrade(u)
    /\ last.op = "Flush" /\ last.err = "nil"
    /\ \E i \in 1..Len(c.wire[c.Conn]) : c.wire[c.Conn][i] > ulocal[u].retwn

\* C2: no Write proceeds while a gate is open, and none finds the buffered
\* writer bound to another stream than the current one.
C2_NoCallWhileUpgrading ==
  [][c'.wn # c.wn => (OpenGates = {} /\ c.bw.sink = c.Conn)]_vars

\* C4: a byte is only ever delivered to the current stream (the old stream
\* gets nothing once c.Conn is replaced), and the stream a successful
\* Upgrade adopted holds no byte written before that call.
C4_UpgradeOrder ==
  /\ [][\A s \in Streams : c'.wire[s] # c.wire[s] => s = c.Conn]_vars
  /\ [](\A u \in DOMAIN upc :
          upc[u] \in {"init", "close", "done"} /\ ulocal[u].err = "nil" /\ ulocal[u].up # 0
            => \A i \in 1..Len(c.wire[ulocal[u].up]) :
                 c.wire[ulocal[u].up][i] > ulocal[u].pre.wn)

\* C9: the stream reference and the bindings of the buffered reader and
\* writer change only while an Upgrade gate is held open.
C9_RebindOnlyUnderGate ==
  [][(\/ c'.Conn # c.Conn
      \/ c'.bw.sink # c.bw.sink \/ c'.bw.tap # c.bw.tap
      \/ c'.br.src # c.br.src \/ c'.br.tap # c.br.tap) => OpenGates # {}]_vars

(***************************************************************************)
(* The same transport with the scheduling Go gives its goroutines: an       *)
(* Upgrade whose upgrader has answered goes on to its return, and a Wait    *)
(* whose channel is closed receives.  Nothing is assumed of the upgrader    *)
(* or of the other callers.                                                 *)
(***************************************************************************)
Fairness ==
  /\ \A u \in {"u1"} :
       /\ WF_vars(UpgradeDefer(u))
       /\ WF_vars(UpgradeSwap(u))
       /\ WF_vars(UpgradeInit(u))
       /\ WF_vars(UpgradeClose(u))
  /\ \A w \in {"w1"} : WF_vars(WaitRecv(w))

SpecLive == Init /\ [][Next]_vars /\ Fairness

\* the upgrader of the Upgrade call that made gate g has answered
UpgraderReturned(g) ==
  \/ gates[g] = "closed"
  \/ \E u \in DOMAIN upc : ulocal[u].made = g /\ upc[u] \in {"swap", "init", "close"}

\* C3: the gate an Upgrade made is closed when that Upgrade has returned,
\* whether the upgrader succeeded or failed, and a Wait blocked on a gate
\* whose upgrader has answered is released.
C3_GateReleased ==
  /\ [](\A u \in DOMAIN upc :
          upc[u] = "done" /\ ulocal[u].made # 0 => gates[ulocal[u].made] = "closed")
  /\ \A w \in {"w1"} :
       (wpc[w] = "recv" /\ UpgraderReturned(wch[w].ch)) ~> (wpc[w] = "done")

\* a Wait that blocked on the gate of an Upgrade whose upgrader failed has
\* returned
C3_Witness ==
  \E u \in DOMAIN upc, w \in DOMAIN wpc :
    /\ FailedUpgrade(u)
    /\ wpc[w] = "done" /\ wch[w].ch # 0 /\ wch[w].ch = ulocal[u].made

\* an Upgrade call that has returned without making a gate
FlushFailedUpgrade(u) == upc[u] = "done" /\ ulocal[u].made = 0

\* C16: when Upgrade's first Flush fails, Upgrade returns that error; it has
\* not called the upgrader, has made no gate, and has not changed the gate
\* field or the stream.
C16_FlushErrorEndsUpgrade ==
  /\ [](\A u \in DOMAIN upc :
          FlushFailedUpgrade(u) =>
            /\ ulocal[u].ret \notin {"nil", "none"}
            /\ ulocal[u].arg = 0 /\ ulocal[u].up = 0 /\ ulocal[u].gate = 0
            /\ c.Conn = ulocal[u].pre.Conn)
  /\ [][\A u \in DOMAIN upc :
          (upc[u] = "idle" /\ upc'[u] # "idle" /\ last'.err # "nil")
            => /\ upc'[u] = "done" /\ ulocal'[u].ret = last'.err
               /\ gates' = gates /\ c'.waits = c.waits /\ c'.Conn = c.Conn]_vars

\* an Upgrade returned its flush's error, and a Wait called since found no
\* gate
C16_Witness ==
  \E u \in DOMAIN upc, w \in DOMAIN wpc :
    /\ FlushFailedUpgrade(u) /\ ulocal[u].ret = "EIO"
    /\ c.waits = 0 /\ OpenGates = {}
    /\ wpc[w] = "done" /\ wch[w].ch = 0


(***************************************************************************)
(* Overlapping Upgrade calls: two goroutines call Upgrade, a third Wait.    *)
(***************************************************************************)
InitRace == InitWith({"u1", "u2"}, {"w1"})

RaceUpgradeFlush(u) == UpgradeFlushUpTo(u, MaxUpgrades + 1)

NextRace ==
  \/ \E u \in DOMAIN upc : RaceUpgradeFlush(u)
  \/ \E u \in DOMAIN upc : UpgradeMakeGate(u)
  \/ \E u \in DOMAIN upc : UpgradeDefer(u)
  \/ \E u \in DOMAIN upc : UpgradeCall(u)
  \/ \E u \in DOMAIN upc : UpgraderReturn(u)
  \/ \E u \in DOMAIN upc : UpgradeSwap(u)
  \/ \E u \in DOMAIN upc : UpgradeInit(u)
  \/ \E u \in DOMAIN upc : UpgradeClose(u)
  \/ \E u \in DOMAIN upc : UpgradeReturn(u)
  \/ \E w \in DOMAIN wpc : WaitCheck(w)
  \/ \E w \in DOMAIN wpc : WaitLoad(w)
  \/ \E w \in DOMAIN wpc : WaitRecv(w)

SpecRace == InitRace /\ [][NextRace]_vars

RaceFairness ==
  /\ \A u \in {"u1", "u2"} :
       /\ WF_vars(UpgradeDefer(u))
       /\ WF_vars(UpgradeSwap(u))
       /\ WF_vars(UpgradeInit(u))
       /\ WF_vars(UpgradeClose(u))
  /\ \A w \in {"w1"} : WF_vars(WaitRecv(w))

SpecRaceLive == SpecRace /\ RaceFairness

\* C19: no gate is closed twice, and when every Upgrade has returned no
\* gate that was made is still open.
C19_GatesClosedOnce ==
  /\ \A g \in GateIds : gates[g] # "panic"
  /\ (\A u \in DOMAIN upc : upc[u] \in {"idle", "done"})
       => \A u \in DOMAIN upc :
            ulocal[u].made # 0 => gates[ulocal[u].made] = "closed"
  /\ (\A u \in DOMAIN upc : upc[u] = "idle") => OpenGates = {}

\* C15: a Wait is blocked only while an Upgrade that made a gate has not
\* returned, and a Wait called while such Upgrades were in flight has not
\* returned before each of them has.
C15_WaitFollowsUpgrade ==
  \A w \in DOMAIN wpc :
    /\ (wpc[w] = "recv" /\ gates[wch[w].ch] = "open") => InFlightGates # {}
    /\ wpc[w] = "done" => wch[w].seen \cap InFlightGates = {}
    /\ (wpc[w] = "done" /\ wch[w].seen # {})
         => (wch[w].ch # 0 /\ gates[wch[w].ch] # "open")


(***************************************************************************)
(* The transport under one caller: Write, Flush, reads, SetDebug with every *)
(* kind of sink, and Upgrade as one call.                                   *)
(***************************************************************************)
\* Conn.Upgrade from call to return
ConnUpgrade(cc, g, ok, hf, env) ==
  LET f == ConnFlush(cc, env)
  IN  IF f.err # "nil" THEN Ret(f.c, 0, f.err)
      ELSE LET c1 == [f.c EXCEPT !.waits = g]
           IN  IF ~ok THEN Ret(c1, 0, UpgradeFailureResult("EUpgrade"))
               ELSE LET up == cc.ns + 1
                        c2 == [c1 EXCEPT !.ns = up, !.hasF[up] = hf, !.Conn = up]
                    IN  Ret(ConnInit(c2), 0, "nil")

IOWrite == WriteOp(MaxWriteLen, MaxBytes, Quotas)

IOFlush ==
  /\ \E env \in FlushEnvs(c, Quotas) :
       LET r == ConnFlush(c, env)
       IN  c' = r.c /\ last' = Call("Flush", r)
  /\ UNCHANGED <<d, gates, upc, ulocal, wpc, wch, lst>>

IOSetDebug ==
  /\ \E w \in {NoDebug, PlainDebug, NewDebugWriter(FALSE, TRUE)} :
       /\ c' = [SetDebug(c, w) EXCEPT !.flog = <<>>]
       /\ last' = Call("SetDebug", Ret(c, 0, "nil"))
  /\ UNCHANGED <<d, gates, upc, ulocal, wpc, wch, lst>>

IOUpgrade ==
  /\ Started < MaxUpgrades
  /\ \E ok \in BOOLEAN, hf \in BOOLEAN, env \in FlushEnvs(c, Quotas) :
       LET r == ConnUpgrade(c, NewGate, ok, hf, env)
       IN  /\ ok \/ ~hf
           /\ c' = r.c
           /\ last' = Call("Upgrade", r)
           /\ gates' = IF r.c.waits = NewGate
                       THEN [gates EXCEPT ![NewGate] = "closed"] ELSE gates
  /\ UNCHANGED <<d, upc, ulocal, wpc, wch, lst>>

NextIO ==
  \/ IOWrite
  \/ IOFlush
  \/ IOSetDebug
  \/ IOUpgrade

SpecIO == Init /\ [][NextIO]_vars

\* C5: after Write calls and a Flush that returns no error, the stream the
\* buffered writer is bound to has received, since the writer was bound to
\* it, exactly the bytes given to Write, in order; and until an error, what
\* was given to Write is what the stream has followed by what is buffered.
C5_FlushDeliversWrites ==
  /\ (last.op = "Flush" /\ last.err = "nil") =>
        (Delivered(c) = c.acc /\ c.bw.buf = <<>>)
  /\ c.bw.err = "nil" => Delivered(c) \o c.bw.buf = c.acc

\* several Write calls, one of them overflowing the buffer, then a Flush
C5_Witness ==
  /\ last.op = "Flush" /\ last.err = "nil"
  /\ Len(c.acc) > MaxWriteLen
  /\ c.wire[c.Conn] = c.acc

\* the sinks Conn.Flush flushes, in the order init built them
Flushers(cc) == IF cc.W = <<>> THEN <<0>> ELSE cc.W

\* C6: a Flush runs the sinks in construction order (the buffered writer,
\* then the stream's Flush when init found one), stops at the first sink
\* that fails, returns that sink's error, and returns nil only when every
\* sink was flushed and none failed.
C6_FlushAggregator ==
  /\ c.W # <<>> => (Len(c.W) = 2 /\ c.W[1] = 0 /\ c.W[2] \in Streams /\ c.hasF[c.W[2]])
  /\ c.hasF[c.Conn] => c.W = <<0, c.Conn>>
  /\ last.op = "Flush" =>
       /\ Len(c.flog) \in 1..Len(Flushers(c))
       /\ \A i \in 1..Len(c.flog) : c.flog[i][1] = Flushers(c)[i]
       /\ \A i \in 1..(Len(c.flog) - 1) : c.flog[i][2] = "nil"
       /\ last.err = c.flog[Len(c.flog)][2]
       /\ (last.err = "nil" => Len(c.flog) = Len(Flushers(c)))

\* the buffered writer's flush failed and the stream's Flush was not called
C6_Witness ==
  /\ last.op = "Flush" /\ last.err = "EIO"
  /\ Len(c.W) = 2 /\ Len(c.flog) = 1

\* the sinks a Flush should flush: the buffered writer, then the stream the
\* transport holds when that stream can be flushed
CurrentFlushers(cc) == <<0>> \o (IF cc.hasF[cc.Conn] THEN <<cc.Conn>> ELSE <<>>)

\* C18: the sinks Conn.Flush flushes are the buffered writer and, when the
\* current stream has a Flush, that stream; a Flush calls no other stream's
\* Flush.
C18_FlushesCurrentStream ==
  /\ Flushers(c) = CurrentFlushers(c)
  /\ last.op = "Flush" =>
       \A i \in 1..Len(c.flog) : c.flog[i][1] \in Range(CurrentFlushers(c))

\* C20: while the transport keeps its first stream and no Write has
\* returned an error, a Flush that returns nil leaves on the stream every
\* byte given to Write, in order, SetDebug calls in between or not.
C20_SetDebugKeepsBuffered ==
  (last.op = "Flush" /\ last.err = "nil" /\ c.ns = 1 /\ ~c.wfail)
    => c.wire[1] = [i \in 1..c.wn |-> i]


(***************************************************************************)
(* Two transports on like streams given the same calls, with the same       *)
(* behaviour of the streams: c is given the diagnostic sink, d none.        *)
(***************************************************************************)
TapWrite ==
  /\ \E len \in 1..MaxWriteLen, env \in WriteEnvs(c, CoarseQuotas) :
       /\ c.wn + len <= ConcBytes
       /\ LET r  == ConnWrite([c EXCEPT !.wn = @ + len], NextBytes(c, len), env)
              rd == ConnWrite([d EXCEPT !.wn = @ + len], NextBytes(d, len), env)
          IN  c' = r.c /\ d' = rd.c /\ last' = TwinCall("Write", r, rd)
  /\ UNCHANGED <<gates, upc, ulocal, wpc, wch, lst>>

TapFlush ==
  /\ \E env \in FlushEnvs(c, CoarseQuotas) :
       LET r  == ConnFlush(c, env)
           rd == ConnFlush(d, env)
       IN  c' = r.c /\ d' = rd.c /\ last' = TwinCall("Flush", r, rd)
  /\ UNCHANGED <<gates, upc, ulocal, wpc, wch, lst>>

TapRead ==
  /\ \E env \in ReadEnvs(c) :
       /\ CanRead(c, env) /\ CanRead(d, env)
       /\ LET r  == ConnRead(c, env)
              rd == ConnRead(d, env)
          IN  c' = r.c /\ d' = rd.c /\ last' = TwinCall("Read", r, rd)
  /\ UNCHANGED <<gates, upc, ulocal, wpc, wch, lst>>

TapSetDebug ==
  /\ \E w \in DebugValues :
       /\ c' = SetDebug(c, w)
       /\ d' = SetDebug(d, NoDebug)
       /\ last' = Call("SetDebug", Ret(c, 0, "nil"))
  /\ UNCHANGED <<gates, upc, ulocal, wpc, wch, lst>>

NextTap ==
  \/ TapWrite
  \/ TapFlush
  \/ TapRead
  \/ TapSetDebug

SpecTap == Init /\ [][NextTap]_vars

\* C7: with or without a diagnostic sink, the same calls read the same bytes
\* and put the same bytes on the stream.
C7_TapPreservesBytes ==
  /\ c.got = d.got
  /\ c.wire = d.wire

\* C8: with or without a diagnostic sink, the same call returns the same
\* error.
C8_TapPreservesErrors == last.err = last.terr

(***************************************************************************)
(* The LIST / LSUB response.                                                *)
(***************************************************************************)
listName == "LIST"

lsubName == "LSUB"

specialuse ==
  <<"\\ALL", "\\Archive", "\\Drafts", "\\Flagged", "\\Junk", "\\Sent", "\\Trash",
    "\\Important">>

\* a Name that ignores Subscribed
NameOfList(r) == listName

\* List.Name
Name(r) == IF r.subscribed THEN lsubName ELSE listName

RECURSIVE removeDupsFrom(_, _)
removeDupsFrom(elements, encountered) ==
  IF elements = <<>> THEN <<>>
  ELSE IF Head(elements) \in encountered
       THEN removeDupsFrom(Tail(elements), encountered)
       ELSE <<Head(elements)>>
              \o removeDupsFrom(Tail(elements), encountered \cup {Head(elements)})

removeDups(elements) == removeDupsFrom(elements, {})

\* an intersection whose second loop looks up its own elements
intersectionOfSecond(s1, s2) == removeDups(SelectSeq(s2, LAMBDA e : e \in Range(s2)))

\* intersection: the elements of s2 that are in s1, in s2's order, once each
intersection(s1, s2) == removeDups(SelectSeq(s2, LAMBDA e : e \in Range(s1)))

\* the attribute lists of the mailboxes a run sends
AttrLists ==
  {<<>>, <<"\\Archive">>, <<"\\Noselect">>, <<"\\Sent", "\\Noselect">>,
   <<"\\Noselect", "\\Trash">>, <<"\\Sent", "\\Sent">>, <<"\\archive">>}

\* the capacities of the Mailboxes channel: unbuffered, or one slot
ChanCaps == {0, 1}

\* the line WriteTo writes: the response name, then mbox.Format()
Line(respName, mbox) == <<respName, mbox.attrs, mbox.delim, mbox.name>>

\* r.Mailboxes <- mbox by the producer, into a free slot of the channel
ListSend ==
  /\ ~lst.closed /\ lst.nsent < MaxRecords
  /\ Len(lst.ch) < lst.cap
  /\ \E attrs \in AttrLists :
       lst' = [lst EXCEPT !.ch = Append(@, MailboxInfo(lst.nsent + 1, attrs)),
                          !.snt = Append(@, MailboxInfo(lst.nsent + 1, attrs)),
                          !.nsent = @ + 1]
  /\ UNCHANGED <<c, d, gates, upc, ulocal, wpc, wch, last>>

\* the same on an unbuffered channel: the send meets WriteTo's receive
ListHandoff ==
  /\ ~lst.closed /\ lst.nsent < MaxRecords
  /\ lst.cap = 0 /\ lst.pc = "range"
  /\ \E attrs \in AttrLists :
       lst' = [lst EXCEPT !.mbox = MailboxInfo(lst.nsent + 1, attrs),
                          !.rcv = Append(@, MailboxInfo(lst.nsent + 1, attrs)),
                          !.snt = Append(@, MailboxInfo(lst.nsent + 1, attrs)),
                          !.nsent = @ + 1, !.pc = "body"]
  /\ UNCHANGED <<c, d, gates, upc, ulocal, wpc, wch, last>>

\* close(r.Mailboxes) by the producer
ListClose ==
  /\ ~lst.closed
  /\ lst' = [lst EXCEPT !.closed = TRUE]
  /\ UNCHANGED <<c, d, gates, upc, ulocal, wpc, wch, last>>

\* for mbox := range r.Mailboxes: the next buffered record
WriteToRecv ==
  /\ lst.pc = "range" /\ lst.ch # <<>>
  /\ lst' = [lst EXCEPT !.mbox = Head(lst.ch), !.ch = Tail(@),
                        !.rcv = Append(@, Head(lst.ch)), !.pc = "body"]
  /\ UNCHANGED <<c, d, gates, upc, ulocal, wpc, wch, last>>

\* a WriteTo that returns as soon as it finds the channel empty
WriteToDoneEarly ==
  /\ lst.pc = "range" /\ lst.ch = <<>>
  /\ lst' = [lst EXCEPT !.pc = "ret"]
  /\ UNCHANGED <<c, d, gates, upc, ulocal, wpc, wch, last>>

\* the channel is closed and drained: return nil
WriteToDone ==
  /\ lst.pc = "range" /\ lst.ch = <<>> /\ lst.closed
  /\ lst' = [lst EXCEPT !.pc = "ret"]
  /\ UNCHANGED <<c, d, gates, upc, ulocal, wpc, wch, last>>

\* r.SpecialUse && len(intersection(mbox.Attributes, specialuse)) == 0
WriteToSkips(r, mbox) ==
  r.specialUse /\ Len(intersection(mbox.attrs, specialuse)) = 0

\* a loop body that notes the error of a write and goes on with the loop
WriteToBodyGoingOn ==
  /\ lst.pc = "body"
  /\ \E ok \in BOOLEAN :
       lst' = IF WriteToSkips(lst, lst.mbox)
              THEN [lst EXCEPT !.pc = "range"]
              ELSE IF ok
              THEN [lst EXCEPT !.out = Append(@, Line(Name(lst), lst.mbox)),
                               !.pc = "range"]
              ELSE [lst EXCEPT !.err = "EIO", !.pc = "range"]
  /\ UNCHANGED <<c, d, gates, upc, ulocal, wpc, wch, last>>

\* the loop body: skip the record, or write its line, or return the error
WriteToBody ==
  /\ lst.pc = "body"
  /\ \E ok \in BOOLEAN :
       lst' = IF WriteToSkips(lst, lst.mbox)
              THEN [lst EXCEPT !.pc = "range"]
              ELSE IF ok
              THEN [lst EXCEPT !.out = Append(@, Line(Name(lst), lst.mbox)),
                               !.pc = "range"]
              ELSE [lst EXCEPT !.err = "EIO", !.pc = "ret"]
  /\ UNCHANGED <<c, d, gates, upc, ulocal, wpc, wch, last>>

InitList ==
  /\ c = NewConn([s \in Streams |-> FALSE])
  /\ d = c
  /\ gates = [g \in GateIds |-> "none"]
  /\ upc = [u \in {"u1"} |-> "idle"]
  /\ ulocal = [u \in {"u1"} |-> ULocal0]
  /\ wpc = [w \in {"w1"} |-> "idle"]
  /\ wch = [w \in {"w1"} |-> Wch0]
  /\ last = NoCall
  /\ \E sub \in BOOLEAN, su \in BOOLEAN, cap \in ChanCaps :
       lst = [Lst0 EXCEPT !.subscribed = sub, !.specialUse = su, !.cap = cap]

NextList ==
  \/ ListSend
  \/ ListHandoff
  \/ ListClose
  \/ WriteToRecv
  \/ WriteToDone
  \/ WriteToBody

SpecList == InitList /\ [][NextList]_vars

\* the records whose turn of the loop is over and did not end in an error
Processed ==
  IF lst.pc = "body" \/ lst.err # "nil"
  THEN SubSeq(lst.rcv, 1, Len(lst.rcv) - 1) ELSE lst.rcv

\* at least one attribute of the record is a special-use token
HasSpecialUse(mbox) ==
  \E i \in 1..Len(mbox.attrs) : mbox.attrs[i] \in Range(specialuse)

\* C10: the lines written are those of the received records that have a
\* special-use attribute when SpecialUse is set, and of every received
\* record when it is not, in the order received.
C10_SpecialUseFilter ==
  LET sel == SelectSeq(Processed,
                       LAMBDA m : ~lst.specialUse \/ HasSpecialUse(m))
  IN  lst.out = [i \in 1..Len(sel) |-> Line(Name(lst), sel[i])]

\* with filtering on: a record with only a wrongly-cased token was skipped
\* and a later record with a special-use token was written
C10_Witness ==
  /\ lst.specialUse /\ lst.pc = "ret" /\ lst.err = "nil"
  /\ Len(lst.rcv) = 2 /\ Len(lst.out) = 1
  /\ lst.rcv[1].attrs = <<"\\archive">>
  /\ lst.rcv[2].attrs = <<"\\Sent", "\\Noselect">>
  /\ lst.out[1] = Line(Name(lst), lst.rcv[2])

\* C13: WriteTo receives the records in the order they were sent; every
\* line written is the line of one received record, no record has two
\* lines, and the lines are in receive order; WriteTo returns nil only when
\* the channel is closed and every record sent has been received.
C13_SequentialDrain ==
  /\ lst.rcv \o lst.ch = lst.snt
  /\ Len(lst.out) <= Len(lst.rcv)
  /\ \A i \in 1..Len(lst.out) :
       /\ lst.out[i][4] \in 1..Len(lst.rcv)
       /\ lst.out[i] = Line(Name(lst), lst.rcv[lst.out[i][4]])
       /\ \A j \in 1..Len(lst.out) : i < j => lst.out[i][4] < lst.out[j][4]
  /\ (lst.pc = "ret" /\ lst.err = "nil")
       => (lst.closed /\ lst.ch = <<>> /\ lst.rcv = lst.snt)

\* with filtering on, two records were drained to the close, one of them
\* repeating a special-use token, and each has its one line
C13_Witness ==
  /\ lst.specialUse /\ lst.pc = "ret" /\ lst.err = "nil"
  /\ Len(lst.rcv) = 2 /\ Len(lst.out) = 2
  /\ lst.rcv[1].attrs = <<"\\Sent", "\\Sent">>

\* C14: when the write of a line fails WriteTo returns that error at once;
\* after it no line is written and no record is received.
C14_WriteErrorAborts ==
  /\ [](lst.err # "nil" => lst.pc = "ret")
  /\ [][(lst.err = "nil" /\ lst'.err # "nil")
        => (lst'.out = lst.out /\ lst'.rcv = lst.rcv)]_vars
  /\ [][lst.pc = "ret"
        => /\ lst'.out = lst.out /\ lst'.rcv = lst.rcv
           /\ lst'.err = lst.err /\ lst'.pc = "ret"]_vars

\* the write of the first record's line failed, and a record sent since
\* then stays in the channel
C14_Witness ==
  /\ lst.pc = "ret" /\ lst.err = "EIO"
  /\ Len(lst.rcv) = 1 /\ lst.out = <<>>
  /\ Len(lst.ch) = 1

(***************************************************************************)
(* List.Handle: the decoder's side of the Mailboxes channel.                *)
(***************************************************************************)
ErrUnhandled == "ErrUnhandled"

\* the responses a run offers: a status response, data responses with no
\* field, with a name only, with the fields of a mailbox, with too few
DataResp(fields) == [kind |-> "data", fields |-> fields]

Resps(n) ==
  {[kind |-> "status", fields |-> <<>>], DataResp(<<>>), DataResp(<<"SEARCH">>),
   DataResp(<<listName, <<"\\Sent">>, "/", n>>),
   DataResp(<<lsubName, <<"\\Noselect">>, "/", n>>),
   DataResp(<<listName, <<"\\Sent">>>>),
   DataResp(<<lsubName, <<>>, "/">>)}

\* imap.ParseNamedResp: the name and the remaining fields of a data response
ParseNamedResp(resp) ==
  IF resp.kind = "data" /\ Len(resp.fields) > 0
  THEN [name |-> Head(resp.fields), fields |-> Tail(resp.fields), ok |-> TRUE]
  ELSE [name |-> "", fields |-> <<>>, ok |-> FALSE]

\* MailboxInfo.Parse: attributes, delimiter and name, or a decode error
MailboxParse(fields) ==
  IF Len(fields) < 3
  THEN [err |-> "EParse", mbox |-> MailboxInfo(0, <<>>)]
  ELSE [err |-> "nil",
        mbox |-> [name |-> fields[3], delim |-> fields[2], attrs |-> fields[1]]]

\* a Handle that takes a claimed line it cannot parse for someone else's
HandleDecodeDisowning(r, resp) ==
  LET p == ParseNamedResp(resp)
  IN  IF ~p.ok \/ p.name # Name(r) \/ MailboxParse(p.fields).err # "nil"
      THEN [ret |-> ErrUnhandled, mbox |-> MailboxInfo(0, <<>>)]
      ELSE [ret |-> "nil", mbox |-> MailboxParse(p.fields).mbox]

\* Handle up to its send: what it returns, or the record it is about to send
HandleDecode(r, resp) ==
  LET p == ParseNamedResp(resp)
  IN  IF ~p.ok \/ p.name # Name(r)
      THEN [ret |-> ErrUnhandled, mbox |-> MailboxInfo(0, <<>>)]
      ELSE IF MailboxParse(p.fields).err # "nil"
      THEN [ret |-> MailboxParse(p.fields).err, mbox |-> MailboxInfo(0, <<>>)]
      ELSE [ret |-> "nil", mbox |-> MailboxParse(p.fields).mbox]

\* a send that only ever completes into a free slot of the buffer
CanSendBuffered(r) == Len(r.ch) < r.cap

\* r.Mailboxes <- mbox can complete: a free slot, or a receiver at its receive
CanSend(r) == Len(r.ch) < r.cap \/ (r.cap = 0 /\ r.pc = "range")

\* the completed send: into the buffer, or straight to the waiting receiver
ChanSend(r, mbox) ==
  IF Len(r.ch) < r.cap
  THEN [r EXCEPT !.ch = Append(@, mbox), !.snt = Append(@, mbox)]
  ELSE [r EXCEPT !.mbox = mbox, !.rcv = Append(@, mbox), !.pc = "body",
                 !.snt = Append(@, mbox)]

\* r.Handle(resp), up to its return or to the send it has to wait at
HandleCall ==
  /\ lst.hpc = "idle" /\ ~lst.closed /\ Len(lst.offered) < MaxOffers
  /\ \E resp \in Resps(Len(lst.offered) + 1) :
       LET h == HandleDecode(lst, resp)
           l1 == [lst EXCEPT !.offered = Append(@, [resp |-> resp, ret |-> h.ret]),
                             !.hwaited = FALSE]
       IN  lst' = IF h.ret # "nil" THEN [l1 EXCEPT !.hret = h.ret]
                  ELSE IF CanSend(lst)
                  THEN [ChanSend(l1, h.mbox) EXCEPT !.hret = "nil"]
                  ELSE [l1 EXCEPT !.hpc = "send", !.hmbox = h.mbox,
                                  !.hret = "pending", !.hwaited = TRUE]
  /\ UNCHANGED <<c, d, gates, upc, ulocal, wpc, wch, last>>

\* the send Handle waited at completes, and Handle returns nil
HandleSend ==
  /\ lst.hpc = "send" /\ CanSend(lst)
  /\ lst' = [ChanSend(lst, lst.hmbox) EXCEPT !.hpc = "idle", !.hret = "nil"]
  /\ UNCHANGED <<c, d, gates, upc, ulocal, wpc, wch, last>>

\* the owner of the channel closes it, between two Handle calls
HandleClose ==
  /\ lst.hpc = "idle" /\ ~lst.closed
  /\ lst' = [lst EXCEPT !.closed = TRUE]
  /\ UNCHANGED <<c, d, gates, upc, ulocal, wpc, wch, last>>

NextHandle ==
  \/ HandleCall
  \/ HandleSend
  \/ HandleClose
  \/ WriteToRecv
  \/ WriteToDone
  \/ WriteToBody

SpecHandle == InitList /\ [][NextHandle]_vars

HandleFairness ==
  /\ WF_vars(HandleSend)
  /\ WF_vars(WriteToRecv)
  /\ WF_vars(WriteToBody)

SpecHandleLive == SpecHandle /\ HandleFairness

\* the name the response is configured to carry
SelectedName == IF lst.subscribed THEN "LSUB" ELSE "LIST"

\* the response is not a named response, or carries another name
NotMine(resp) ==
  \/ resp.kind # "data"
  \/ resp.fields = <<>>
  \/ resp.fields[1] # SelectedName

\* the records sent on the channel, and the one Handle is waiting to send
Delivered2 == lst.rcv \o lst.ch

\* C11: Name is LSUB when Subscribed is set and LIST otherwise; Handle
\* returns ErrUnhandled exactly for the responses that are not named
\* responses or carry another name, and such a call sends nothing and
\* changes nothing but the log of calls.
C11_HandleClaimsOnlyItsName ==
  /\ [](Name(lst) = SelectedName)
  /\ [](\A i \in 1..Len(lst.offered) :
          (lst.offered[i].ret = ErrUnhandled) <=> NotMine(lst.offered[i].resp))
  /\ [][(Len(lst'.offered) > Len(lst.offered)
           /\ NotMine(lst'.offered[Len(lst'.offered)].resp))
        => /\ lst'.hret = ErrUnhandled /\ lst'.hpc = "idle"
           /\ lst'.ch = lst.ch /\ lst'.rcv = lst.rcv
           /\ lst'.mbox = lst.mbox /\ lst'.pc = lst.pc]_vars

\* a line of the other variant and a response with no name were disowned
C11_Witness ==
  /\ ~lst.subscribed /\ Len(lst.offered) = 2
  /\ lst.offered[1].resp = DataResp(<<lsubName, <<"\\Noselect">>, "/", 1>>)
  /\ lst.offered[2].resp.kind = "status"
  /\ lst.hret = ErrUnhandled /\ Delivered2 = <<>>

\* the outcome a line calls for, by its own shape
LineOutcome(resp) ==
  IF NotMine(resp) THEN ErrUnhandled
  ELSE IF Len(resp.fields) < 4 THEN "EParse"
  ELSE "nil"

\* the record a well-formed line stands for
LineRecord(resp) ==
  [name |-> resp.fields[4], delim |-> resp.fields[3], attrs |-> resp.fields[2]]

\* C12: a claimed line whose fields do not parse gets the decode error and
\* no record; over any sequence of offered lines each outcome is the one its
\* line calls for, and the records on the channel (with the one a waiting
\* Handle is about to send) are those of the well-formed lines of the
\* selected name, in offer order.
C12_HandleDecodeErrors ==
  LET good == SelectSeq(lst.offered, LAMBDA o : LineOutcome(o.resp) = "nil")
      sent == Delivered2 \o (IF lst.hpc = "send" THEN <<lst.hmbox>> ELSE <<>>)
  IN  /\ \A i \in 1..Len(lst.offered) :
           lst.offered[i].ret = LineOutcome(lst.offered[i].resp)
      /\ sent = [i \in 1..Len(good) |-> LineRecord(good[i].resp)]
      /\ lst.hpc = "idle" /\ lst.offered # <<>>
           => lst.hret = lst.offered[Len(lst.offered)].ret

\* a record, then a decode error, then a line of the other variant, and
\* only the first is on the channel
C12_Witness ==
  /\ Len(lst.offered) = 3 /\ lst.hpc = "idle"
  /\ lst.offered[1].ret = "nil"
  /\ lst.offered[2].ret = "EParse"
  /\ lst.offered[3].ret = ErrUnhandled
  /\ lst.offered[3].resp.fields # <<>>
  /\ Len(Delivered2) = 1

\* a decode error, then a record delivered by the same handler
C12_WitnessUsable ==
  /\ Len(lst.offered) = 2 /\ lst.hpc = "idle"
  /\ lst.offered[1].ret = "EParse"
  /\ lst.offered[2].ret = "nil"
  /\ Len(Delivered2) = 1

\* C17: Handle waits at its send only when it has a record to send and the
\* channel cannot take it (the buffer is full, or there is no buffer and no
\* receiver is waiting); a waiting Handle returns nil once the consumer
\* receives, unless the consumer has stopped receiving.
C17_HandleSuspendsOnlyWhenFull ==
  /\ [][(lst.hpc = "idle" /\ lst'.hpc = "send")
        => /\ Len(lst.ch) = lst.cap
           /\ lst.cap = 0 => lst.pc # "range"
           /\ LineOutcome(lst'.offered[Len(lst'.offered)].resp) = "nil"]_vars
  /\ [][(Len(lst'.offered) > Len(lst.offered) /\ lst'.hpc = "idle")
        => lst'.hret = LineOutcome(lst'.offered[Len(lst'.offered)].resp)]_vars
  /\ (lst.hpc = "send") ~> ((lst.hpc = "idle" /\ lst.hret = "nil") \/ lst.pc = "ret")

\* a Handle that had to wait at its send has returned nil
C17_Witness ==
  /\ lst.hpc = "idle" /\ lst.hwaited /\ lst.hret = "nil"
  /\ lst.pc # "ret"
  /\ Len(Delivered2) = 2

====
